---- MODULE Spec2Model ----
(***************************************************************************)
(* Model of tool/node_size_debugger.cpp: the command-line dispatcher       *)
(* (main), the --code argument scan, the three serializers and the fixed   *)
(* pass prefix / one emit per debugger / suffix.                           *)
(*                                                                         *)
(* A token (one argv[i]) is a sequence of one-character strings, so that   *)
(* the character-level tests of the source (leading dashes, isdigit of the *)
(* first character, "no second character") are computed, not assumed.      *)
(* Tokens are restricted to 7-bit ASCII characters.                        *)
(***************************************************************************)
EXTENDS Integers, Sequences, FiniteSets, TLC

VARIABLES
    argv,        \* argv[1 .. argc-1]: the tokens after the program name
    nalign,      \* the platform: how many alignment classes the probe reports
    pc,          \* position of the run in main
    mode,        \* the branch of main that was taken
    cur,         \* the scan pointer of the --code loop, an index into argv
    tab_width,   \* std::size_t tab_width of the --code branch
    file_open,   \* file.is_open()
    file_path,   \* the path the std::ofstream was opened on
    out_rdbuf,   \* the buffer `out` writes to: "cout" or "file"
    cout,        \* lines written to standard output
    cerr,        \* lines written to the error stream
    disk,        \* path -> [exists, text]: the files an open can touch
    idx,         \* next element of the debuggers tuple to serialize
    calls,       \* history: the serializer calls made, in order
    probed,      \* history: the debug(...) calls made, in order
    opens,       \* history: the paths handed to file.open, in order
    exit_code    \* the value main returned (-1 while it runs)

vars == <<argv, nalign, pc, mode, cur, tab_width, file_open, file_path, out_rdbuf,
          cout, cerr, disk, idx, calls, probed, opens, exit_code>>

---------------------------------------------------------------------------
(* Bounds of the model *)

\* longest argument list after --code
MaxArgs == 5
\* longest argument list after any other first token
MaxIgnored == 1
\* largest number of alignment classes the probe reports
MaxEntries == 2

---------------------------------------------------------------------------
(* Tokens *)

T_simple  == <<"-", "-", "s", "i", "m", "p", "l", "e">>
T_verbose == <<"-", "-", "v", "e", "r", "b", "o", "s", "e">>
T_code    == <<"-", "-", "c", "o", "d", "e">>
T_help    == <<"-", "-", "h", "e", "l", "p">>
T_version == <<"-", "-", "v", "e", "r", "s", "i", "o", "n">>
T_t       == <<"-", "t">>
T_outputfile == <<"o", "u", "t", "p", "u", "t", "f", "i", "l", "e">>

\* first tokens that main does not recognise
BadOptions ==
    { <<"-", "-", "b", "o", "g", "u", "s">>,
      <<"-", "-", "-", "x">>,
      <<"-", "-">>,
      <<"s", "i", "m", "p", "l", "e">>,
      <<"-", "x", "-", "y">>,
      <<>>,
      T_t }

\* tokens that may follow the first one
RestTokens ==
    { T_t, <<"0">>, <<"3">>, <<"9">>, <<"a">>, <<"1", "2">> }

\* every path an open may be given
Paths == RestTokens \ {T_t}

SeqsUpTo(S, n) == UNION { [1..k -> S] : k \in 0..n }

\* the argument vectors the model runs main on
Inputs ==
    {<<>>}
    \cup { <<T_code>> \o r : r \in SeqsUpTo(RestTokens, MaxArgs) }
    \cup { <<f>> \o r : f \in {T_simple, T_verbose, T_help, T_version} \cup BadOptions,
                        r \in SeqsUpTo(RestTokens, MaxIgnored) }

---------------------------------------------------------------------------
(* Output lines *)

NoInd == <<>>

Line(ind, text, name, a, b, w) ==
    [ind |-> ind, text |-> text, name |-> name, a |-> a, b |-> b, w |-> w]

Txt(text) == Line(NoInd, text, "", 0, 0, 0)

Blank == Txt("")

\* what a file held before the run, when it existed
OldText == << Txt("previous content") >>

ErrLine(text, opt) == [text |-> text, opt |-> opt]

---------------------------------------------------------------------------
(* The probe: debug(Debugger{}) of node_size_debugger.hpp *)

\* the tuple with list and forward_list exchanged
DebuggersSwapped ==
    << "list", "forward_list", "set", "multiset", "unordered_set",
       "unordered_multiset", "map", "multimap", "unordered_map",
       "unordered_multimap" >>

\* the element types of the debuggers tuple, by their container_name
debuggers ==
    << "forward_list", "list", "set", "multiset", "unordered_set",
       "unordered_multiset", "map", "multimap", "unordered_map",
       "unordered_multimap" >>

IndexOf(d) == CHOOSE i \in 1..Len(debuggers) : debuggers[i] = d

RECURSIVE Pow2(_)
Pow2(n) == IF n = 0 THEN 1 ELSE 2 * Pow2(n - 1)

\* the i-th alignment class probed on this platform
AlignmentClass(i) == Pow2(i - 1)

\* base node size of container d for alignment a on the modelled platform
BaseNodeSize(d, a) == 8 * ((IndexOf(d) % 3) + 1) + a

\* debug_result: the container's name and its (alignment, base size) pairs
debug(d) ==
    [container_name |-> d,
     node_sizes |-> [i \in 1..nalign |->
                        <<AlignmentClass(i), BaseNodeSize(d, AlignmentClass(i))>>]]

---------------------------------------------------------------------------
(* simple_serializer and verbose_serializer *)

RECURSIVE simple_pairs(_)
simple_pairs(node_sizes) ==
    IF node_sizes = <<>> THEN <<>>
    ELSE << Line(<<"\t">>, "A=B", "", Head(node_sizes)[1], Head(node_sizes)[2], 0) >>
         \o simple_pairs(Tail(node_sizes))

simple_emit(result) ==
    << Line(NoInd, "NAME:", result.container_name, 0, 0, 0) >>
    \o simple_pairs(result.node_sizes)

RECURSIVE verbose_pairs(_)
verbose_pairs(node_sizes) ==
    IF node_sizes = <<>> THEN <<>>
    ELSE << Line(<<"\t">>, "With an alignment of A is the base node size B.", "",
                 Head(node_sizes)[1], Head(node_sizes)[2], 2) >>
         \o verbose_pairs(Tail(node_sizes))

verbose_emit(result) ==
    << Line(NoInd, "For container 'NAME':", result.container_name, 0, 0, 0) >>
    \o verbose_pairs(result.node_sizes)

---------------------------------------------------------------------------
(* code_serializer *)

code_prefix ==
    << Txt("// The following section was autogenerated by foonathan_memory_node_size_debugger"),
       Txt("//=== BEGIN AUTOGENERATED SECTION ===//"),
       Blank >>

code_suffix == << Txt("//=== END AUTOGENERATED SECTION ===//") >>

\* tab without the special case of width 0
TabBlanksOnly(w) == [i \in 1..w |-> " "]

\* code_serializer::tab for tab_width w
tab(w) == IF w = 0 THEN <<"\t">> ELSE [i \in 1..w |-> " "]

struct_name(container_name) == container_name \o "_node_size"

\* the seven blanks written in front of "detail::" in the public template
SevenBlanks == <<" ", " ", " ", " ", " ", " ", " ">>

\* the loop with pair.first and pair.second exchanged
RECURSIVE CodePairsExchanged(_, _, _)
CodePairsExchanged(node_sizes, name, w) ==
    IF node_sizes = <<>> THEN <<>>
    ELSE << Blank,
            Line(tab(w), "template <>", "", 0, 0, 0),
            Line(tab(w), "struct NAME<A>", struct_name(name), Head(node_sizes)[2], 0, 0),
            Line(tab(w), ": std::integral_constant<std::size_t, B>", "", 0,
                 Head(node_sizes)[1], 0),
            Line(tab(w), "{};", "", 0, 0, 0) >>
         \o CodePairsExchanged(Tail(node_sizes), name, w)

\* the body of the loop over result.node_sizes
RECURSIVE code_pairs(_, _, _)
code_pairs(node_sizes, name, w) ==
    IF node_sizes = <<>> THEN <<>>
    ELSE << Blank,
            Line(tab(w), "template <>", "", 0, 0, 0),
            Line(tab(w), "struct NAME<A>", struct_name(name), Head(node_sizes)[1], 0, 0),
            Line(tab(w), ": std::integral_constant<std::size_t, B>", "", 0,
                 Head(node_sizes)[2], 0),
            Line(tab(w), "{};", "", 0, 0, 0) >>
         \o code_pairs(Tail(node_sizes), name, w)

\* code_serializer::operator() for tab_width w
code_emit(result, w) ==
    << Txt("namespace detail"),
       Txt("{"),
       Line(tab(w), "template <std::size_t Alignment>", "", 0, 0, 0),
       Line(tab(w), "struct NAME;", struct_name(result.container_name), 0, 0, 0) >>
    \o code_pairs(result.node_sizes, result.container_name, w)
    \o << Txt("} // namespace detail"),
          Blank,
          Txt("template <typename T>"),
          Line(NoInd, "struct NAME", struct_name(result.container_name), 0, 0, 0),
          Txt(": std::integral_constant<std::size_t,"),
          Line(SevenBlanks, "detail::NAME<FOONATHAN_ALIGNOF(T)>::value + sizeof(T)>",
               struct_name(result.container_name), 0, 0, 0),
          Txt("{};"),
          Blank >>

---------------------------------------------------------------------------
(* The three serializers behind one interface, selected by mode *)

prefix_lines(m) == IF m = "CodeGen" THEN code_prefix ELSE <<>>

emit_lines(m, result, w) ==
    CASE m = "Plain"   -> simple_emit(result)
      [] m = "Verbose" -> verbose_emit(result)
      [] m = "CodeGen" -> code_emit(result, w)

suffix_lines(m) == IF m = "CodeGen" THEN code_suffix ELSE <<>>

---------------------------------------------------------------------------
(* print_help, print_version, print_invalid_option, print_invalid_argument *)

print_help(out) ==
    out \o << Txt("Usage: foonathan_memory_node_size_debugger [--version][--help]"),
              Txt(" [--simple][--verbose]"),
              Txt(" [--code [-t digit] [outputfile]]"),
              Txt("Obtains information about the internal node sizes of the STL containers."),
              Blank,
              Txt("   --simple"),
              Txt("   --verbose"),
              Txt("   --code"),
              Txt("   --help"),
              Txt("   --version"),
              Blank,
              Txt("Options for code generation: "),
              Txt("   -t"),
              Blank,
              Txt("The base node size is the size of the node without the storage for the value type."),
              Txt("Add 'sizeof(value_type)' to the base node size for the appropriate alignment to get the whole size."),
              Txt("With no options prints base node sizes of all containers in a simple manner.") >>

print_version(out) ==
    out \o << Txt("foonathan_memory_node_size_debugger version VERSION") >>

\* skipping a "--" prefix only, whatever follows it
SkipTwoDashes(option) ==
    IF Len(option) >= 2 /\ option[1] = "-" /\ option[2] = "-"
    THEN SubSeq(option, 3, Len(option))
    ELSE option

\* while (*option == '-') ++option;
RECURSIVE SkipDashes(_)
SkipDashes(option) ==
    IF option # <<>> /\ Head(option) = "-" THEN SkipDashes(Tail(option)) ELSE option

print_invalid_option(out, option) ==
    out \o << ErrLine("invalid option -- 'OPT'", SkipDashes(option)),
              ErrLine("Try --help for more information.", <<>>) >>

print_invalid_argument(out, option) ==
    out \o << ErrLine("invalid argument for option -- 'OPT'", option),
              ErrLine("Try --help for more information.", <<>>) >>

\* the value both error printers return, which main returns
InvalidExit == 2

---------------------------------------------------------------------------
(* Character tests of the -t branch *)

DigitChars == <<"0", "1", "2", "3", "4", "5", "6", "7", "8", "9">>

\* std::isdigit on a 7-bit character
isdigit(c) == \E i \in 1..Len(DigitChars) : DigitChars[i] = c

\* c - '0' for a digit character c
DigitValue(c) == (CHOOSE i \in 1..Len(DigitChars) : DigitChars[i] = c) - 1

\* the test without its last conjunct: any token that starts with a digit
StartsWithDigitAt(args, i) ==
    /\ i <= Len(args)
    /\ Len(args[i]) >= 1
    /\ isdigit(args[i][1])

\* *cur && std::isdigit(cur[0][0]) && !cur[0][1], for cur at index i of args
IsSingleDigitAt(args, i) ==
    /\ i <= Len(args)
    /\ Len(args[i]) >= 1
    /\ isdigit(args[i][1])
    /\ Len(args[i]) = 1

\* std::size_t tab_width = 4u;
DefaultTabWidth == 4

---------------------------------------------------------------------------
(* The output stream and the file *)

\* out << lines, on whichever buffer `out` holds
WriteOut(lines) ==
    IF out_rdbuf = "cout"
    THEN /\ cout' = cout \o lines
         /\ disk' = disk
    ELSE /\ disk' = [disk EXCEPT ![file_path].text = @ \o lines]
         /\ cout' = cout

\* an open that keeps what the file held (append mode)
OpenedForAppend(old) == [exists |-> TRUE, text |-> old.text]

\* the file a successful file.open(path) leaves on disk: created or truncated
OpenedFile(old) == [exists |-> TRUE, text |-> <<>>]

\* a handle that is never closed
NeverClosed(is_open) == is_open

\* is_open() after the std::ofstream has been destroyed at the end of its scope
ofstream_dtor(is_open) == FALSE

---------------------------------------------------------------------------
(* State machine *)

Init ==
    /\ argv \in Inputs
    /\ nalign \in 1..MaxEntries
    /\ \E before \in { [exists |-> FALSE, text |-> <<>>],
                       [exists |-> TRUE, text |-> OldText] } :
           disk = [p \in Paths |-> before]
    /\ pc = "main"
    /\ mode = "none"
    /\ cur = 0
    /\ tab_width = 0
    /\ file_open = FALSE
    /\ file_path = <<>>
    /\ out_rdbuf = "cout"
    /\ cout = <<>>
    /\ cerr = <<>>
    /\ idx = 0
    /\ calls = <<>>
    /\ probed = <<>>
    /\ opens = <<>>
    /\ exit_code = -1

Argc == Len(argv) + 1

IsSimple  == IF Argc <= 1 THEN TRUE ELSE argv[1] = T_simple
IsVerbose == ~IsSimple /\ argv[1] = T_verbose
IsCode    == ~IsSimple /\ ~IsVerbose /\ argv[1] = T_code
IsHelp    == ~IsSimple /\ ~IsVerbose /\ ~IsCode /\ argv[1] = T_help
IsVersion == ~IsSimple /\ ~IsVerbose /\ ~IsCode /\ ~IsHelp /\ argv[1] = T_version

\* serialize(simple_serializer{std::cout})
MainSimple ==
    /\ pc = "main" /\ IsSimple
    /\ mode' = "Plain"
    /\ pc' = "prefix"
    /\ UNCHANGED <<argv, nalign, cur, tab_width, file_open, file_path, out_rdbuf,
                   cout, cerr, disk, idx, calls, probed, opens, exit_code>>

\* serialize(verbose_serializer{std::cout})
MainVerbose ==
    /\ pc = "main" /\ IsVerbose
    /\ mode' = "Verbose"
    /\ pc' = "prefix"
    /\ UNCHANGED <<argv, nalign, cur, tab_width, file_open, file_path, out_rdbuf,
                   cout, cerr, disk, idx, calls, probed, opens, exit_code>>

\* a --code branch that writes the prefix before it scans the arguments
MainCodePrefixFirst ==
    /\ pc = "main" /\ IsCode
    /\ mode' = "CodeGen"
    /\ tab_width' = DefaultTabWidth
    /\ file_open' = FALSE
    /\ out_rdbuf' = "cout"
    /\ cout' = cout \o code_prefix
    /\ cur' = 2
    /\ pc' = "scan"
    /\ UNCHANGED <<argv, nalign, file_path, cerr, disk, idx, calls, probed,
                   opens, exit_code>>

\* the --code branch up to the first test of the for loop
MainCode ==
    /\ pc = "main" /\ IsCode
    /\ mode' = "CodeGen"
    /\ tab_width' = DefaultTabWidth
    /\ file_open' = FALSE
    /\ out_rdbuf' = "cout"
    /\ cur' = 2
    /\ pc' = "scan"
    /\ UNCHANGED <<argv, nalign, file_path, cout, cerr, disk, idx, calls, probed,
                   opens, exit_code>>

\* print_help(std::cout)
MainHelp ==
    /\ pc = "main" /\ IsHelp
    /\ mode' = "Help"
    /\ cout' = print_help(cout)
    /\ pc' = "scope_exit"
    /\ UNCHANGED <<argv, nalign, cur, tab_width, file_open, file_path, out_rdbuf,
                   cerr, disk, idx, calls, probed, opens, exit_code>>

\* print_version(std::cout)
MainVersion ==
    /\ pc = "main" /\ IsVersion
    /\ mode' = "Version"
    /\ cout' = print_version(cout)
    /\ pc' = "scope_exit"
    /\ UNCHANGED <<argv, nalign, cur, tab_width, file_open, file_path, out_rdbuf,
                   cerr, disk, idx, calls, probed, opens, exit_code>>

\* return print_invalid_option(std::cerr, argv[1])
MainInvalid ==
    /\ pc = "main"
    /\ ~IsSimple /\ ~IsVerbose /\ ~IsCode /\ ~IsHelp /\ ~IsVersion
    /\ mode' = "Invalid"
    /\ cerr' = print_invalid_option(cerr, argv[1])
    /\ exit_code' = InvalidExit
    /\ pc' = "done"
    /\ UNCHANGED <<argv, nalign, cur, tab_width, file_open, file_path, out_rdbuf,
                   cout, disk, idx, calls, probed, opens>>

\* a -t branch that takes options only in front of the output file
ScanTabBeforeFileOnly ==
    /\ pc = "scan" /\ cur <= Len(argv)
    /\ argv[cur] = T_t
    /\ IF ~file_open /\ IsSingleDigitAt(argv, cur + 1)
       THEN /\ tab_width' = DigitValue(argv[cur + 1][1])
            /\ cur' = cur + 2
            /\ UNCHANGED <<pc, cerr, exit_code, file_open>>
       ELSE /\ cerr' = print_invalid_argument(cerr, IF file_open THEN T_code ELSE T_t)
            /\ exit_code' = InvalidExit
            /\ file_open' = ofstream_dtor(file_open)
            /\ cur' = cur + 1
            /\ pc' = "done"
            /\ UNCHANGED tab_width
    /\ UNCHANGED <<argv, nalign, mode, file_path, out_rdbuf, cout, disk, idx, calls,
                   probed, opens>>

\* one iteration of the for loop with *cur == "-t"
ScanTab ==
    /\ pc = "scan" /\ cur <= Len(argv)
    /\ argv[cur] = T_t
    /\ IF IsSingleDigitAt(argv, cur + 1)
       THEN /\ tab_width' = DigitValue(argv[cur + 1][1])
            /\ cur' = cur + 2
            /\ UNCHANGED <<pc, cerr, exit_code, file_open>>
       ELSE /\ cerr' = print_invalid_argument(cerr, T_t)
            /\ exit_code' = InvalidExit
            /\ file_open' = ofstream_dtor(file_open)
            /\ cur' = cur + 1
            /\ pc' = "done"
            /\ UNCHANGED tab_width
    /\ UNCHANGED <<argv, nalign, mode, file_path, out_rdbuf, cout, disk, idx, calls,
                   probed, opens>>

\* one iteration of the for loop with another token and no file open yet
ScanOpen ==
    /\ pc = "scan" /\ cur <= Len(argv)
    /\ argv[cur] # T_t
    /\ ~file_open
    /\ opens' = Append(opens, argv[cur])
    /\ \E opened \in BOOLEAN :
          IF opened
          THEN /\ file_open' = TRUE
               /\ file_path' = argv[cur]
               /\ disk' = [disk EXCEPT ![argv[cur]] = OpenedFile(@)]
               /\ out_rdbuf' = "file"
               /\ cur' = cur + 1
               /\ UNCHANGED <<pc, cerr, exit_code>>
          ELSE /\ cerr' = print_invalid_argument(cerr, T_outputfile)
               /\ exit_code' = InvalidExit
               /\ file_open' = ofstream_dtor(FALSE)
               /\ pc' = "done"
               /\ UNCHANGED <<file_path, disk, out_rdbuf, cur>>
    /\ UNCHANGED <<argv, nalign, mode, tab_width, cout, idx, calls, probed>>

\* an else branch that opens the further token as the output file instead
ScanExtraReopen ==
    /\ pc = "scan" /\ cur <= Len(argv)
    /\ argv[cur] # T_t
    /\ file_open
    /\ opens' = Append(opens, argv[cur])
    /\ file_path' = argv[cur]
    /\ disk' = [disk EXCEPT ![argv[cur]] = OpenedFile(@)]
    /\ cur' = cur + 1
    /\ UNCHANGED <<argv, nalign, pc, mode, tab_width, file_open, out_rdbuf, cout,
                   cerr, idx, calls, probed, exit_code>>

\* one iteration of the for loop with another token and the file already open
ScanExtra ==
    /\ pc = "scan" /\ cur <= Len(argv)
    /\ argv[cur] # T_t
    /\ file_open
    /\ cerr' = print_invalid_argument(cerr, T_code)
    /\ exit_code' = InvalidExit
    /\ file_open' = ofstream_dtor(file_open)
    /\ pc' = "done"
    /\ UNCHANGED <<argv, nalign, mode, cur, tab_width, file_path, out_rdbuf, cout,
                   disk, idx, calls, probed, opens>>

\* the loop ends at the null pointer; code_serializer serializer{out, tab_width}
ScanEnd ==
    /\ pc = "scan" /\ cur > Len(argv)
    /\ pc' = "prefix"
    /\ UNCHANGED <<argv, nalign, mode, cur, tab_width, file_open, file_path,
                   out_rdbuf, cout, cerr, disk, idx, calls, probed, opens, exit_code>>

\* serialize: serializer.prefix()
Prefix ==
    /\ pc = "prefix"
    /\ calls' = Append(calls, "prefix")
    /\ WriteOut(prefix_lines(mode))
    /\ idx' = 1
    /\ pc' = "emit"
    /\ UNCHANGED <<argv, nalign, mode, cur, tab_width, file_open, file_path,
                   out_rdbuf, cerr, probed, opens, exit_code>>

\* serialize_impl: the next element of the pack, serializer(debug(Debuggers{}))
Emit ==
    /\ pc = "emit" /\ idx <= Len(debuggers)
    /\ probed' = Append(probed, debuggers[idx])
    /\ calls' = Append(calls, debug(debuggers[idx]).container_name)
    /\ WriteOut(emit_lines(mode, debug(debuggers[idx]), tab_width))
    /\ idx' = idx + 1
    /\ pc' = IF idx = Len(debuggers) THEN "suffix" ELSE "emit"
    /\ UNCHANGED <<argv, nalign, mode, cur, tab_width, file_open, file_path,
                   out_rdbuf, cerr, opens, exit_code>>

\* serialize: serializer.suffix()
Suffix ==
    /\ pc = "suffix"
    /\ calls' = Append(calls, "suffix")
    /\ WriteOut(suffix_lines(mode))
    /\ pc' = "scope_exit"
    /\ UNCHANGED <<argv, nalign, mode, cur, tab_width, file_open, file_path,
                   out_rdbuf, cerr, idx, probed, opens, exit_code>>

\* the end of the branch and of main: locals are destroyed, main returns 0
MainReturn ==
    /\ pc = "scope_exit"
    /\ file_open' = ofstream_dtor(file_open)
    /\ exit_code' = 0
    /\ pc' = "done"
    /\ UNCHANGED <<argv, nalign, mode, cur, tab_width, file_path, out_rdbuf, cout,
                   cerr, disk, idx, calls, probed, opens>>

Next ==
    \/ MainSimple
    \/ MainVerbose
    \/ MainCode
    \/ MainHelp
    \/ MainVersion
    \/ MainInvalid
    \/ ScanTab
    \/ ScanOpen
    \/ ScanExtra
    \/ ScanEnd
    \/ Prefix
    \/ Emit
    \/ Suffix
    \/ MainReturn

Spec == Init /\ [][Next]_vars

---------------------------------------------------------------------------
(* Vocabulary of the properties *)

Done == pc = "done"

\* the ten container kinds in the order the specification fixes
Registry ==
    << "forward_list", "list", "set", "multiset", "unordered_set",
       "unordered_multiset", "map", "multimap", "unordered_map",
       "unordered_multimap" >>

\* the text the run generated, wherever it went
Generated == IF file_path # <<>> THEN disk[file_path].text ELSE cout

IsPrefixOf(s, t) == Len(s) <= Len(t) /\ \A i \in 1..Len(s) : s[i] = t[i]

\* positions of the lines of t whose text is x
LinesWith(t, x) == { i \in 1..Len(t) : t[i].text = x }

IsBegin(l) == l.text = "//=== BEGIN AUTOGENERATED SECTION ===//"
IsEnd(l)   == l.text = "//=== END AUTOGENERATED SECTION ===//"

\* the generic declarations "struct <name>_node_size;", one per block, in order
DeclaredNames(t) ==
    LET decls == SelectSeq(t, LAMBDA l : l.text = "struct NAME;")
    IN  [i \in 1..Len(decls) |-> decls[i].name]

RegistryStructNames == [i \in 1..Len(Registry) |-> Registry[i] \o "_node_size"]

\* one BEGIN marker, then one block per registry kind in registry order, then
\* one END marker, which is the last line
MarkersAroundBlocks(t) ==
    /\ Cardinality({ i \in 1..Len(t) : IsBegin(t[i]) }) = 1
    /\ Cardinality({ i \in 1..Len(t) : IsEnd(t[i]) }) = 1
    /\ IsEnd(t[Len(t)])
    /\ DeclaredNames(t) = RegistryStructNames
    /\ Cardinality(LinesWith(t, "namespace detail")) = Len(Registry)
    /\ Cardinality(LinesWith(t, "} // namespace detail")) = Len(Registry)
    /\ \A b \in { i \in 1..Len(t) : IsBegin(t[i]) } :
       \A n \in LinesWith(t, "namespace detail") \cup LinesWith(t, "struct NAME") :
           b < n /\ n < Len(t)

SerializingMode == mode \in {"Plain", "Verbose", "CodeGen"}

ExpectedCalls == <<"prefix">> \o Registry \o <<"suffix">>

(* C1: a run in Plain, Verbose or CodeGen mode that passes validation calls
   prefix() once, then probes and emits the ten registry kinds once each in
   registry order, then calls suffix() once; at every moment the calls made so
   far are a prefix of that sequence, and a finished CodeGen run holds exactly
   one BEGIN marker, the ten blocks in registry order and one END marker. *)
C1_FixedPass ==
    /\ IsPrefixOf(calls, ExpectedCalls)
    /\ IsPrefixOf(probed, Registry)
    /\ (Done /\ exit_code = 0 /\ SerializingMode) =>
          /\ calls = ExpectedCalls
          /\ probed = Registry
          /\ mode = "CodeGen" => MarkersAroundBlocks(Generated)

C1_Witness ==
    Done /\ exit_code = 0 /\ mode = "CodeGen" /\ calls = ExpectedCalls
    /\ Len(Generated) > Len(Registry)

\* the characters of token left once every leading dash is dropped
WithoutLeadingDashes(token, rest) ==
    \E k \in 0..Len(token) :
        /\ \A i \in 1..k : token[i] = "-"
        /\ k < Len(token) => token[k + 1] # "-"
        /\ rest = SubSeq(token, k + 1, Len(token))

UnknownFirstToken ==
    /\ Len(argv) >= 1
    /\ argv[1] \notin {T_simple, T_verbose, T_code, T_help, T_version}

(* C2: when the first token is none of --simple, --verbose, --code, --help,
   --version, the run probes nothing and writes nothing to standard output or
   to any file, and it ends with exit code 2 and an error-stream message that
   holds the token with all its leading dashes removed. *)
C2_InvalidOption ==
    UnknownFirstToken =>
        /\ probed = <<>> /\ calls = <<>> /\ cout = <<>> /\ opens = <<>>
        /\ pc \in {"main", "done"}
        /\ Done =>
              /\ exit_code = 2
              /\ \E i \in 1..Len(cerr) :
                    /\ cerr[i].text = "invalid option -- 'OPT'"
                    /\ WithoutLeadingDashes(argv[1], cerr[i].opt)

C2_Witness ==
    Done /\ UnknownFirstToken /\ argv[1] = <<"-", "-", "-", "x">>
    /\ exit_code = 2 /\ cerr # <<>>

---------------------------------------------------------------------------
(* Vocabulary of the --code argument list *)

CodeRun == Len(argv) >= 1 /\ argv[1] = T_code

\* the ten tokens that consist of exactly one decimal digit, by value
DecimalTokens ==
    << <<"0">>, <<"1">>, <<"2">>, <<"3">>, <<"4">>, <<"5">>, <<"6">>, <<"7">>,
       <<"8">>, <<"9">> >>

SingleDigitToken(i) ==
    i <= Len(argv) /\ \E n \in 0..9 : argv[i] = DecimalTokens[n + 1]

\* the error stream err names opt as the option with an invalid argument
NamedIn(err, opt) ==
    \E i \in 1..Len(err) :
        err[i].text = "invalid argument for option -- 'OPT'" /\ err[i].opt = opt

Named(opt) == NamedIn(cerr, opt)

\* where the -t tokens stand
TabPositions == { i \in 2..Len(argv) : argv[i] = T_t }

\* the tokens that are neither -t nor the token right after a -t
NonOptions == { i \in 2..Len(argv) : argv[i] # T_t /\ argv[i - 1] # T_t }

AllTabsOk == \A i \in TabPositions : SingleDigitToken(i + 1)

TabsOkBefore(j) == \A i \in TabPositions : i < j => SingleDigitToken(i + 1)

\* no token in front of position i has ended the run: the -t tokens there are
\* well formed, at most one other token stands there, and its open succeeded
NoEarlierError(i) ==
    /\ TabsOkBefore(i)
    /\ Cardinality({ j \in NonOptions : j < i }) <= 1
    /\ { j \in NonOptions : j < i } # {} => file_path # <<>>

(* C3, as stated: in --code mode every -t token that is not immediately
   followed by a token of exactly one decimal digit makes the run exit with
   code 2 and an invalid-argument error naming -t, wherever the -t stands in
   the argument list; a -t followed by a single digit D sets W to D.  Stated
   for the runs in which no open fails. *)
C3_Original ==
    (CodeRun /\ Done /\ ~Named(T_outputfile)) =>
        /\ \A i \in TabPositions :
              ~SingleDigitToken(i + 1) => (exit_code = 2 /\ Named(T_t))
        /\ (exit_code = 0 /\ TabPositions # {}) =>
              \E i \in TabPositions : argv[i + 1] = DecimalTokens[tab_width + 1]

\* a finished run whose scan reached a malformed -t ended on the -t error
C3_ReachedTab ==
    (CodeRun /\ Done) =>
        \A i \in TabPositions :
            (NoEarlierError(i) /\ ~SingleDigitToken(i + 1)) =>
                (exit_code = 2 /\ Named(T_t))

\* the loop iteration that stands on a -t token
C3_Step ==
    (pc = "scan" /\ cur <= Len(argv) /\ argv[cur] = T_t) =>
        IF SingleDigitToken(cur + 1)
        THEN /\ tab_width' \in 0..9
             /\ argv[cur + 1] = DecimalTokens[tab_width' + 1]
             /\ pc' = "scan" /\ cerr' = cerr /\ exit_code' = exit_code
        ELSE /\ pc' = "done" /\ exit_code' = 2 /\ NamedIn(cerr', T_t)

(* C3, amended: in --code mode every -t token that the left-to-right scan
   reaches (no earlier token has ended the run with an outputfile or --code
   error, or with the error of an earlier -t) and that is not immediately
   followed by a token of exactly one decimal digit makes the run exit with
   code 2 and an invalid-argument error naming -t, before or after the output
   file token; a reached -t followed by a single digit D sets W to D. *)
C3_Amended == []C3_ReachedTab /\ [][C3_Step]_vars

C3_Witness ==
    Done /\ CodeRun /\ exit_code = 2 /\ Named(T_t) /\ file_path # <<>>
    /\ tab_width # DefaultTabWidth

FirstNonOption(j) == j \in NonOptions /\ \A k \in NonOptions : k >= j

(* C4, as stated: in --code mode the first token that is not -t (and not the
   digit consumed by a -t) is opened as the output file, and once an output
   file has been consumed any further token that is not a -t option makes the
   run exit with code 2 and an invalid-argument error naming --code; at most
   one output file is ever opened in a run. *)
C4_Original ==
    /\ Len(opens) <= 1
    /\ (CodeRun /\ Done) =>
          /\ \A j \in NonOptions : FirstNonOption(j) => opens = <<argv[j]>>
          /\ (file_path # <<>> /\ Cardinality(NonOptions) >= 2) =>
                (exit_code = 2 /\ Named(T_code))

(* C4, amended: in --code mode, when no earlier -t has ended the run, the
   first token that is not -t and not the token after a -t is handed to open
   as the output file (a failed open ends the run with code 2 naming
   outputfile); once that open has succeeded, any further such token that
   no malformed -t precedes makes the run exit with code 2 and an
   invalid-argument error naming --code; at most one open is ever made. *)
C4_Amended ==
    /\ Len(opens) <= 1
    /\ (CodeRun /\ Done) =>
          \A j \in NonOptions :
              TabsOkBefore(j) =>
                  IF FirstNonOption(j)
                  THEN /\ opens = <<argv[j]>>
                       /\ file_path \in {<<>>, argv[j]}
                       /\ file_path = <<>> => (exit_code = 2 /\ Named(T_outputfile))
                  ELSE file_path # <<>> => (exit_code = 2 /\ Named(T_code))

C4_Witness ==
    Done /\ CodeRun /\ exit_code = 2 /\ Named(T_code) /\ Len(opens) = 1
    /\ Cardinality(NonOptions) >= 2

Max(S) == CHOOSE m \in S : \A x \in S : x <= m

\* the width the last -t pair of the argument list asks for, 4 without one
LastWidth ==
    IF TabPositions = {} THEN 4
    ELSE CHOOSE n \in 0..9 : argv[Max(TabPositions) + 1] = DecimalTokens[n + 1]

\* an indentation of one tab for width 0, of w blanks otherwise
IsUnit(ind, w) ==
    IF w = 0 THEN ind = <<"\t">>
    ELSE Len(ind) = w /\ \A i \in 1..Len(ind) : ind[i] = " "

(* C10: in --code mode -t options are accepted any number of times, before
   or after the output file token: an argument list whose -t tokens are all
   followed by a single digit never ends on a -t error, and with at most one
   other token it succeeds unless the open fails; the generated text is
   indented throughout by the width of the last -t pair, 4 when there is
   none. *)
C10_TabAnywhere ==
    CodeRun =>
        /\ AllTabsOk => ~Named(T_t)
        /\ (Done /\ AllTabsOk /\ Cardinality(NonOptions) <= 1) =>
              (exit_code = 0 \/ Named(T_outputfile))
        /\ (Done /\ exit_code = 0) =>
              /\ AllTabsOk
              /\ tab_width = LastWidth
              /\ \A i \in LinesWith(Generated, "template <>") :
                    IsUnit(Generated[i].ind, LastWidth)

C10_Witness ==
    /\ Done /\ CodeRun /\ exit_code = 0 /\ file_path # <<>>
    /\ Cardinality(TabPositions) = 2
    /\ \E i \in TabPositions, j \in NonOptions, k \in TabPositions :
          i < j /\ j < k /\ argv[i + 1] # argv[k + 1]
    /\ LinesWith(Generated, "template <>") # {}

---------------------------------------------------------------------------
(* Output, destination and release *)

\* a file that no open of this run has touched
Untouched(f) ==
    \/ f = [exists |-> FALSE, text |-> <<>>]
    \/ f = [exists |-> TRUE, text |-> OldText]

\* text holds nothing a serializer wrote
NothingGenerated(text) == text \in {<<>>, OldText}

IsDiagnosis(l) ==
    l.text \in {"invalid option -- 'OPT'", "invalid argument for option -- 'OPT'"}

IsHint(l) == l.text = "Try --help for more information."

(* C5: a run that ends with exit code 2 has made no serializer call and no
   probe, has written nothing to standard output and no generated text to any
   file, and has written exactly the diagnosis and the help hint to the error
   stream; in --code mode the first serializer call and the first byte of
   output come only after the scan has passed the last argument without
   error. *)
C5_NoPartialOutput ==
    /\ (Done /\ exit_code = 2) =>
          /\ cout = <<>> /\ calls = <<>> /\ probed = <<>>
          /\ \A p \in Paths : NothingGenerated(disk[p].text)
          /\ Len(cerr) = 2 /\ IsDiagnosis(cerr[1]) /\ IsHint(cerr[2])
    /\ exit_code # 2 => cerr = <<>>
    /\ (CodeRun /\ (calls # <<>> \/ cout # <<>>
                    \/ \E p \in Paths : ~NothingGenerated(disk[p].text))) =>
          (cur > Len(argv) /\ exit_code # 2 /\ cerr = <<>>)

C5_Witness ==
    /\ Done /\ CodeRun /\ exit_code = 2 /\ file_path # <<>>
    /\ disk[file_path] = [exists |-> TRUE, text |-> <<>>]
    /\ cur >= 4

\* the number of lines of one block for n node size entries
BlockLines(n) == 4 + 5 * n + 8

\* prefix, the ten blocks in registry order and the suffix, and nothing else
WholeText(t) ==
    /\ Len(t) = 3 + Len(Registry) * BlockLines(nalign) + 1
    /\ IsBegin(t[2]) /\ t[3] = Blank
    /\ MarkersAroundBlocks(t)
    /\ \A i \in 1..Len(t) : t[i] \notin { OldText[k] : k \in 1..Len(OldText) }

(* C6: a successful --code run with an output file token leaves the whole
   generated text, and nothing else, in that file, which exists afterwards
   whether or not it existed before, and leaves standard output and every
   other file unchanged; a successful --code run without a file token writes
   the whole generated text to standard output and opens no file. *)
C6_Destination ==
    (Done /\ CodeRun /\ exit_code = 0) =>
        IF NonOptions # {}
        THEN /\ Cardinality(NonOptions) = 1
             /\ \A j \in NonOptions :
                   /\ disk[argv[j]].exists
                   /\ WholeText(disk[argv[j]].text)
                   /\ \A q \in Paths \ {argv[j]} : Untouched(disk[q])
             /\ cout = <<>>
        ELSE /\ WholeText(cout)
             /\ opens = <<>>
             /\ \A q \in Paths : Untouched(disk[q])

C6_Witness ==
    /\ Done /\ CodeRun /\ exit_code = 0 /\ file_path # <<>> /\ cout = <<>>
    /\ Len(disk[file_path].text) > Len(Registry)
    /\ \E q \in Paths : q # file_path /\ disk[q].text = OldText

PassPositions == {"prefix", "emit", "suffix", "scope_exit"}

(* C7: at most one open is made in a run; no file is open in any terminal
   state, whichever way the run ended; and when a file token was given the
   file stays open, as the target of the output, from prefix() until the end
   of the scope after suffix(). *)
C7_Released ==
    /\ Len(opens) <= 1
    /\ Done => ~file_open
    /\ file_open => (file_path # <<>> /\ opens = <<file_path>>)
    /\ (CodeRun /\ pc \in PassPositions /\ NonOptions # {}) =>
          (file_open /\ out_rdbuf = "file")

C7_Witness ==
    Done /\ CodeRun /\ exit_code = 2 /\ file_path # <<>> /\ ~file_open
    /\ opens = <<file_path>>

---------------------------------------------------------------------------
(* The generated block of one container kind *)

IsSpecHead(l) == l.text = "struct NAME<A>"
IsSpecBase(l) == l.text = ": std::integral_constant<std::size_t, B>"

\* the line of t that declares the generic template of struct n
DeclLine(t, n) == CHOOSE i \in 1..Len(t) : t[i].text = "struct NAME;" /\ t[i].name = n

\* the first closing of the detail scope after line s
CloseAfter(t, s) ==
    CHOOSE e \in (s + 1)..Len(t) :
        /\ t[e].text = "} // namespace detail"
        /\ \A c \in (s + 1)..(e - 1) : t[c].text # "} // namespace detail"

\* the block of kind in t holds one specialization per entry of the result,
\* in the result's order, between the declaration and the closing of detail,
\* and the public template of the same name follows
BlockMatches(t, kind, result) ==
    LET n     == kind \o "_node_size"
        s     == DeclLine(t, n)
        e     == CloseAfter(t, s)
        body  == SubSeq(t, s + 1, e - 1)
        heads == SelectSeq(body, IsSpecHead)
        bases == SelectSeq(body, IsSpecBase)
        r     == result.node_sizes
    IN  /\ Cardinality({ i \in 1..Len(t) : t[i].text = "struct NAME;" /\ t[i].name = n }) = 1
        /\ t[s - 1].text = "template <std::size_t Alignment>"
        /\ t[s - 3].text = "namespace detail"
        /\ Len(heads) = Len(r) /\ Len(bases) = Len(r)
        /\ \A k \in 1..Len(r) :
              /\ heads[k].name = n
              /\ heads[k].a = r[k][1]
              /\ bases[k].b = r[k][2]
        /\ \A i \in (s + 1)..(e - 1) :
              IsSpecHead(t[i]) =>
                  (t[i - 1].text = "template <>" /\ IsSpecBase(t[i + 1])
                   /\ t[i + 2].text = "{};")
        /\ \A i \in 1..Len(t) :
              (IsSpecHead(t[i]) /\ t[i].name = n) => (s < i /\ i < e)
        /\ t[e + 2].text = "template <typename T>"
        /\ t[e + 3].text = "struct NAME" /\ t[e + 3].name = n
        /\ t[e + 5].text = "detail::NAME<FOONATHAN_ALIGNOF(T)>::value + sizeof(T)>"
        /\ t[e + 5].name = n

(* C8: in the text of a successful CodeGen run, the block of every container
   kind holds exactly one explicit specialization per entry of the Result the
   probe returned for that kind, in the order of the entries, each binding the
   entry's alignment to the entry's base node size, between the generic
   declaration <name>_node_size and the closing of the detail scope, followed
   by the public template of the same name. *)
C8_Specializations ==
    (Done /\ CodeRun /\ exit_code = 0) =>
        \A k \in 1..Len(Registry) :
            BlockMatches(Generated, Registry[k], debug(Registry[k]))

C8_Witness ==
    /\ Done /\ CodeRun /\ exit_code = 0 /\ nalign >= 2
    /\ Cardinality({ i \in 1..Len(Generated) : IsSpecHead(Generated[i]) })
          = Len(Registry) * nalign

---------------------------------------------------------------------------
(* Indentation *)

\* line i of t lies inside an open detail scope
InDetail(t, i) ==
    \E o \in 1..(i - 1) :
        /\ t[o].text = "{"
        /\ \A c \in o..i : t[c].text # "} // namespace detail"

IsTwoUnits(ind, w) ==
    IF w = 0 THEN ind = <<"\t", "\t">>
    ELSE Len(ind) = 2 * w /\ \A i \in 1..Len(ind) : ind[i] = " "

IsContinuation(l) ==
    l.text = "detail::NAME<FOONATHAN_ALIGNOF(T)>::value + sizeof(T)>"

(* C9, as stated: in CodeGen output the indentation unit is one tab when
   W = 0 and W blanks when W is 1..9 (4 without -t); each line inside the
   nested scope is indented by exactly one unit, and levels nest additively:
   whatever is indented is indented by one unit or, two levels deep, by two
   units. *)
C9_Original ==
    (Done /\ CodeRun /\ exit_code = 0) =>
        \A i \in 1..Len(Generated) :
            /\ (Generated[i] # Blank /\ InDetail(Generated, i)) =>
                  IsUnit(Generated[i].ind, LastWidth)
            /\ \/ Generated[i].ind = <<>>
               \/ IsUnit(Generated[i].ind, LastWidth)
               \/ IsTwoUnits(Generated[i].ind, LastWidth)

(* C9, amended: in CodeGen output the indentation unit is one tab when W = 0
   and W blanks when W is 1..9 (4 without -t); each non-empty line inside the
   nested detail scope is indented by exactly one unit; no line is indented by
   two units; the one indented line outside that scope, the continuation line
   of the public template, is indented by seven blanks whatever W is, and
   every other line is not indented. *)
C9_Amended ==
    (Done /\ CodeRun /\ exit_code = 0) =>
        \A i \in 1..Len(Generated) :
            /\ ~IsTwoUnits(Generated[i].ind, LastWidth)
            /\ IF Generated[i] # Blank /\ InDetail(Generated, i)
               THEN IsUnit(Generated[i].ind, LastWidth)
               ELSE IF IsContinuation(Generated[i])
                    THEN Len(Generated[i].ind) = 7
                         /\ \A c \in 1..7 : Generated[i].ind[c] = " "
                    ELSE Generated[i].ind = <<>>

C9_Witness ==
    /\ Done /\ CodeRun /\ exit_code = 0 /\ LastWidth = 0
    /\ \E i \in 1..Len(Generated) :
          InDetail(Generated, i) /\ Generated[i].ind = <<"\t">>
    /\ \E i \in 1..Len(Generated) :
          IsContinuation(Generated[i]) /\ Len(Generated[i].ind) = 7

====
